---- MODULE Spec2Model ----
(***************************************************************************)
(* Model of src/app.py: a console support chat loop that answers each      *)
(* input line from an order store, an FAQ list or a remote chat model, and *)
(* appends one JSON record per event to a session log.                     *)
(*                                                                         *)
(* Strings are sequences of elements.  An element is either one character  *)
(* ("a", " ", "\t", "\n", "/") or a chunk of fixed template text that      *)
(* begins and ends with a non-blank character (written as a longer         *)
(* string).  Cyrillic letters are written with ASCII names: "cv" is the    *)
(* lower-case and "CV" the upper-case letter.  Log records carry no        *)
(* timestamp here: the clock value is never read back by the program.      *)
(***************************************************************************)
EXTENDS Integers, Sequences, FiniteSets, TLC

VARIABLES
    env,          \* TRUE iff OPENAI_API_KEY and OPENAI_API_BASE are both set
    files,        \* data/faq.json and data/orders.json as found on disk
    pc,           \* position of the process
    faq_data,     \* module global: the loaded FAQ list
    orders_data,  \* module global: the loaded order store
    memory,       \* conversation.memory.chat_memory.messages
    log,          \* the records written to logs/session_*.jsonl, in order
    console,      \* what print() has written, in order
    line,         \* outcome of the last input() call
    user_input,   \* local of main
    bot_reply,    \* local of main
    usage_data,   \* local of main
    invoked,      \* the handlers called so far in the current pass of the loop
    call          \* outcome of conversation.predict in the current pass

vars == <<env, files, pc, faq_data, orders_data, memory, log, console, line,
          user_input, bot_reply, usage_data, invoked, call>>

(***************************************************************************)
(* Bounds of the model.                                                    *)
(***************************************************************************)
MaxTurns == 2
MaxFaqLen == 3

(***************************************************************************)
(* str methods used by the program.                                        *)
(***************************************************************************)
Whitespace == {" ", "\t", "\n"}

UpperOf == [c \in {"e", "x", "i", "t", "q", "u", "o", "r", "d", "a",
                   "cv", "cy", "ch", "co", "cd"} |->
              CASE c = "e" -> "E" [] c = "x" -> "X" [] c = "i" -> "I"
                [] c = "t" -> "T" [] c = "q" -> "Q" [] c = "u" -> "U"
                [] c = "o" -> "O" [] c = "r" -> "R" [] c = "d" -> "D"
                [] c = "a" -> "A"
                [] c = "cv" -> "CV" [] c = "cy" -> "CY" [] c = "ch" -> "CH"
                [] c = "co" -> "CO" [] c = "cd" -> "CD"]

LowerChar(c) ==
    IF \E l \in DOMAIN UpperOf : UpperOf[l] = c
    THEN CHOOSE l \in DOMAIN UpperOf : UpperOf[l] = c
    ELSE c

lower(s) == [i \in 1..Len(s) |-> LowerChar(s[i])]

RECURSIVE lstrip(_)
lstrip(s) == IF s # <<>> /\ Head(s) \in Whitespace THEN lstrip(Tail(s)) ELSE s

RECURSIVE rstrip(_)
rstrip(s) ==
    IF s # <<>> /\ s[Len(s)] \in Whitespace
    THEN rstrip(SubSeq(s, 1, Len(s) - 1))
    ELSE s

strip(s) == rstrip(lstrip(s))

startswith(s, prefix) ==
    /\ Len(s) >= Len(prefix)
    /\ SubSeq(s, 1, Len(prefix)) = prefix

\* The first whitespace-free run of s, s not starting with whitespace.
RECURSIVE FirstToken(_)
FirstToken(s) ==
    IF s = <<>> \/ Head(s) \in Whitespace THEN <<>>
    ELSE <<Head(s)>> \o FirstToken(Tail(s))

\* str.split() without arguments: the runs of non-whitespace, in order.
RECURSIVE split(_)
split(s) ==
    LET t == lstrip(s) IN
    IF t = <<>> THEN <<>>
    ELSE LET tok == FirstToken(t) IN
         <<tok>> \o split(SubSeq(t, Len(tok) + 1, Len(t)))

\* "\n".join(parts)
RECURSIVE join(_)
join(parts) ==
    IF parts = <<>> THEN <<>>
    ELSE IF Len(parts) = 1 THEN parts[1]
    ELSE parts[1] \o <<"\n">> \o join(Tail(parts))

\* str(x) of an optional order field: the digits of a number, the text of a
\* string, "None" when dict.get finds no such key.
DigitOf == <<"0", "1", "2", "3", "4", "5", "6", "7", "8", "9">>

RECURSIVE str_int(_)
str_int(n) ==
    IF n < 10 THEN <<DigitOf[n + 1]>>
    ELSE str_int(n \div 10) \o <<DigitOf[(n % 10) + 1]>>

get_str(order, key) ==
    IF key \notin DOMAIN order THEN <<"None">>
    ELSE IF key = "eta_days" THEN str_int(order[key])
    ELSE order[key]

\* Optional values: None and a present value.
None == [some |-> FALSE]
Some(v) == [some |-> TRUE, val |-> v]

(***************************************************************************)
(* The data the runs are explored over.                                    *)
(***************************************************************************)
\* FAQ lists that data/faq.json may hold: entries {q, a} in stored order.
FaqFull ==
    << [q |-> <<" ", "Q", "1">>, a |-> <<"a", "1">>],
       [q |-> <<"q", "1">>,      a |-> <<"d", "u", "p">>],
       [q |-> <<"q", "2">>,      a |-> <<>>],
       [q |-> <<"q", "3">>,      a |-> <<" ", "a", "3", "\n">>] >>

FaqChoices == {FaqFull, <<>>}

\* Order records that data/orders.json may hold under an id.
InTransit  == [status |-> "in_transit", eta_days |-> 2, carrier |-> <<"FastShip">>]
Delivered  == [status |-> "delivered", delivered_at |-> <<"2024-05-01">>]
Processing == [status |-> "processing", note |-> <<"Sobiraem zakaz">>]
Cancelled  == [status |-> "cancelled"]
NoStatus   == [note |-> <<"Sobiraem zakaz">>]
EmptyRec   == <<>>
BareTransit == [status |-> "in_transit"]

OrderRecords ==
    {InTransit, Delivered, Processing, Cancelled, NoStatus, EmptyRec, BareTransit}

IdA1 == <<"A", "1">>
IdX  == <<"X">>
IdZ9 == <<"Z", "9">>

\* The store of the session runs: A1 in transit, X cancelled, Z9 absent.
OrdersMain == (IdA1 :> InTransit) @@ (IdX :> Cancelled)

FileStates ==
    {[state |-> "missing"], [state |-> "malformed"]}

FaqFiles == FileStates \cup {[state |-> "ok", data |-> f] : f \in FaqChoices}
OrdersFiles == FileStates \cup {[state |-> "ok", data |-> OrdersMain]}

\* Lines the console may deliver to input().
OrderCmd == <<"/", "o", "r", "d", "e", "r">>

Inputs ==
    { <<>>,
      <<" ", "\t">>,
      <<"e", "x", "i", "t">>,
      <<" ", "Q", "u", "i", "t", " ">>,
      <<"CV", "CY", "CH", "CO", "CD">>,
      OrderCmd \o <<" ">> \o IdA1,
      OrderCmd \o <<" ">> \o IdZ9,
      OrderCmd,
      OrderCmd \o <<" ">> \o IdA1 \o <<" ">> \o IdX,
      <<" ", "/", "O", "R", "D", "E", "R", "\t">> \o IdA1 \o <<" ">>,
      OrderCmd \o <<"s", " ">> \o IdA1,
      OrderCmd \o IdA1 \o <<" ">> \o IdX,
      <<"q", "1", " ">>,
      <<"Q", "2">>,
      <<"q", "3">>,
      <<"h", "i">> }

\* What conversation.predict may return, and what the callback may count.
Replies == { <<" ", "o", "k", "\n">>, <<>> }

ZeroUsage == [prompt_tokens |-> 0, completion_tokens |-> 0, total_tokens |-> 0]
Usages == { ZeroUsage,
            [prompt_tokens |-> 2, completion_tokens |-> 1, total_tokens |-> 3] }

\* str(e) of the exceptions conversation.predict may raise.
Errors == { <<"Request timed out.">>, <<>> }

\* What an input() call may end with other than a line.
KeyboardInterrupt == [raised |-> "KeyboardInterrupt"]
EOFError          == [raised |-> "EOFError"]
Line(s)           == [text |-> s]
NoLine            == [raised |-> "nothing"]

\* Outcome of conversation.predict in a pass: not called, returned, raised e.
NoCall == [state |-> "none"]

(***************************************************************************)
(* Module level: configuration and data loading.                           *)
(***************************************************************************)
BRAND_NAME == <<"Shoply">>

load_data(filename) ==
    IF files[filename].state = "ok" THEN Some(files[filename].data) ELSE None

load_msg(filename) ==
    <<"Oshibka pri zagruzke fayla", " ", filename, ":", " ", files[filename].state>>

(***************************************************************************)
(* get_order_status, find_in_faq, log_entry.                               *)
(***************************************************************************)
get_order_status(order_id) ==
    LET found == order_id \in DOMAIN orders_data
        order == orders_data[order_id]
    IN
    IF ~found \/ DOMAIN order = {}     \* "if not order": None or an empty dict
    THEN <<"Zakaz s nomerom", " ">> \o order_id
            \o <<" ", "ne nayden. Pozhaluysta, proverte nomer.">>
    ELSE LET status == IF "status" \in DOMAIN order
                       THEN Some(order["status"]) ELSE None
         IN
         IF status = Some("in_transit")
         THEN <<"Zakaz #">> \o order_id
                 \o <<" ", "v puti. Primernyy srok dostavki:", " ">>
                 \o get_str(order, "eta_days")
                 \o <<" ", "dnya. Perevozchik:", " ">>
                 \o get_str(order, "carrier") \o <<".">>
         ELSE IF status = Some("delivered")
         THEN <<"Zakaz #">> \o order_id \o <<" ", "dostavlen", " ">>
                 \o get_str(order, "delivered_at") \o <<".">>
         ELSE IF status = Some("processing")
         THEN <<"Zakaz #">> \o order_id \o <<" ", "v obrabotke.", " ">>
                 \o get_str(order, "note") \o <<".">>
         ELSE <<"Neizvestnyy status dlya zakaza #">> \o order_id \o <<".">>

\* Variant of faq_scan that compares without strip().
RECURSIVE faq_scan_unstripped(_, _)
faq_scan_unstripped(items, question) ==
    IF items = <<>> THEN None
    ELSE IF lower(question) = lower(Head(items).q)
         THEN Some(Head(items).a)
         ELSE faq_scan_unstripped(Tail(items), question)

RECURSIVE faq_scan(_, _)
faq_scan(items, question) ==
    IF items = <<>> THEN None
    ELSE IF strip(lower(question)) = strip(lower(Head(items).q))
         THEN Some(Head(items).a)
         ELSE faq_scan(Tail(items), question)

find_in_faq(question) == faq_scan(faq_data, question)

\* Variant of log_entry that writes no record for an empty content.
log_entry_skips_empty(role, content, usage) ==
    IF content = <<>> THEN log
    ELSE IF usage.some /\ DOMAIN usage.val # {}
    THEN Append(log, [role |-> role, content |-> content, usage |-> usage.val])
    ELSE Append(log, [role |-> role, content |-> content])

\* "if usage:" is the truth value of the argument: None and {} are false.
log_entry(role, content, usage) ==
    IF usage.some /\ DOMAIN usage.val # {}
    THEN Append(log, [role |-> role, content |-> content, usage |-> usage.val])
    ELSE Append(log, [role |-> role, content |-> content])

(***************************************************************************)
(* main: the tests and texts of the loop.                                  *)
(***************************************************************************)
system_prompt ==
    <<"Ty - assistent podderzhki magazina", " ", "<<">> \o BRAND_NAME
       \o <<">>.", " ", "Otvechay kratko, vezhlivo i po delu.", " ",
            "Ne pridumyvay informatsiyu, kotoroy net v predostavlennom kontekste.",
            " ", "Ispolzuy FAQ dlya otvetov na obshchie voprosy.">>

ExitKeywords ==
    { <<"cv", "cy", "ch", "co", "cd">>,
      <<"q", "u", "i", "t">>,
      <<"e", "x", "i", "t">> }

\* Variant of is_blank: the empty-input test is missing.
is_blank_never(text) == FALSE

\* line 150: "if not user_input"
is_blank(text) == text = <<>>

\* Variant of is_exit that compares without lower().
is_exit_case_sensitive(text) == text \in ExitKeywords

\* line 153: user_input.lower() in ("vyhod", "quit", "exit")
is_exit(text) == lower(text) \in ExitKeywords

\* line 164: user_input.lower().startswith("/order")
is_order(text) == startswith(lower(text), OrderCmd)

\* lines 165-167: the reply of the /order branch
FormatError == <<"Nevernyy format komandy. Ispolzuyte: /order <nomer zakaza>">>

\* Variant of order_reply that accepts two or more tokens.
order_reply_at_least_two(text) ==
    LET parts == split(text) IN
    IF Len(parts) >= 2 THEN get_order_status(parts[2]) ELSE FormatError

order_reply(text) ==
    LET parts == split(text) IN
    IF Len(parts) = 2 THEN get_order_status(parts[2]) ELSE FormatError

order_calls(text) ==
    IF Len(split(text)) = 2 THEN {"get_order_status"} ELSE {}

\* line 172: "if faq_answer:" is false for None and for the empty string
faq_truthy(faq_answer) == faq_answer.some /\ faq_answer.val # <<>>

\* line 179
faq_block(item) ==
    <<"Vopros:", " ">> \o item.q \o <<"\n", "Otvet:", " ">> \o item.a

faq_context == join([i \in 1..Len(faq_data) |-> faq_block(faq_data[i])])

\* Variant of input_for_llm that sends the question without the FAQ context.
input_for_llm_question_only == user_input

\* lines 181-185
input_for_llm ==
    <<"Ispolzuya sleduyushchiy kontekst iz FAQ, otvet na vopros polzovatelya.",
      "\n", "--- Kontekst FAQ ---", "\n">>
       \o faq_context
       \o <<"\n", "--- Konets konteksta ---", "\n", "\n",
            "Vopros polzovatelya:", " ">>
       \o user_input

\* line 197
error_reply(e) ==
    <<"[Oshibka] Ne udalos poluchit otvet ot modeli:", " ">> \o e

ExitNotice == <<"User initiated exit. Session ended.">>
Farewell   == <<"Bot:", " ", "Do svidaniya!">>

\* The turns started so far: one user record each.
Turns == Cardinality({i \in DOMAIN log : log[i].role = "user"})

(***************************************************************************)
(* The state machine.                                                      *)
(***************************************************************************)
FaqPath    == "data/faq.json"
OrdersPath == "data/orders.json"

Init ==
    /\ env \in BOOLEAN
    /\ \E f \in FaqFiles, o \in OrdersFiles :
          files = (FaqPath :> f) @@ (OrdersPath :> o)
    /\ pc = "boot"
    /\ faq_data = <<>>
    /\ orders_data = <<>>
    /\ memory = <<>>
    /\ log = <<>>
    /\ console = <<>>
    /\ line = NoLine
    /\ user_input = <<>>
    /\ bot_reply = <<>>
    /\ usage_data = ZeroUsage
    /\ invoked = {}
    /\ call = NoCall

\* Variant of Boot that goes on when at least one of the two files loaded
\* ("and" for "or" in line 59).
Boot_either_file ==
    /\ pc = "boot"
    /\ IF ~env
       THEN /\ console' = Append(console,
                  <<"Oshibka: OPENAI_API_KEY i OPENAI_API_BASE dolzhny byt ustanovleny v .env fayle.">>)
            /\ pc' = "aborted"
            /\ UNCHANGED <<faq_data, orders_data>>
       ELSE LET f == load_data(FaqPath)
                o == load_data(OrdersPath)
                ef == IF f.some THEN <<>> ELSE <<load_msg(FaqPath)>>
                eo == IF o.some THEN <<>> ELSE <<load_msg(OrdersPath)>>
            IN
            /\ console' = console \o ef \o eo
            /\ IF f.some \/ o.some
               THEN /\ faq_data' = (IF f.some THEN f.val ELSE <<>>)
                    /\ orders_data' = (IF o.some THEN o.val ELSE <<>>)
                    /\ pc' = "main"
               ELSE /\ pc' = "aborted"
                    /\ UNCHANGED <<faq_data, orders_data>>
    /\ UNCHANGED <<env, files, memory, log, line, user_input, bot_reply,
                   usage_data, invoked, call>>

\* Lines 17-60: configuration check, log file, data loading.
Boot ==
    /\ pc = "boot"
    /\ IF ~env
       THEN /\ console' = Append(console,
                  <<"Oshibka: OPENAI_API_KEY i OPENAI_API_BASE dolzhny byt ustanovleny v .env fayle.">>)
            /\ pc' = "aborted"
            /\ UNCHANGED <<faq_data, orders_data>>
       ELSE LET f == load_data(FaqPath)
                o == load_data(OrdersPath)
                ef == IF f.some THEN <<>> ELSE <<load_msg(FaqPath)>>
                eo == IF o.some THEN <<>> ELSE <<load_msg(OrdersPath)>>
            IN
            /\ console' = console \o ef \o eo
            /\ IF f.some /\ o.some
               THEN /\ faq_data' = f.val
                    /\ orders_data' = o.val
                    /\ pc' = "main"
               ELSE /\ pc' = "aborted"
                    /\ UNCHANGED <<faq_data, orders_data>>
    /\ UNCHANGED <<env, files, memory, log, line, user_input, bot_reply,
                   usage_data, invoked, call>>

\* Lines 106-141: the chain with its memory, the system message, the banner.
MainInit ==
    /\ pc = "main"
    /\ memory' = <<[role |-> "system", content |-> system_prompt]>>
    /\ log' = log_entry("system", system_prompt, None)
    /\ console' = console \o
          << <<"Chat-bot podderzhki magazina", " ", "<<">> \o BRAND_NAME
                \o <<">>", " ", "zapushchen!">>,
             <<"Ispolzuetsya model:", " ", "MODEL_NAME">>,
             <<"Vvedite vash vopros ili komandu /order <id>. Dlya vyhoda vvedite 'vyhod'.", "\n">> >>
    /\ pc' = "input"
    /\ UNCHANGED <<env, files, faq_data, orders_data, line, user_input,
                   bot_reply, usage_data, invoked, call>>

\* Lines 143-158: one input() call and what the loop does before dispatch.
Read ==
    /\ pc = "input"
    /\ \E outcome \in {Line(s) : s \in Inputs} \cup {KeyboardInterrupt, EOFError} :
          /\ line' = outcome
          /\ invoked' = {}
          /\ call' = NoCall
          /\ IF outcome = KeyboardInterrupt
             THEN /\ console' = Append(console, <<"\n", "[Preryvanie polzovatelem]">>)
                  /\ pc' = "done"
                  /\ UNCHANGED <<user_input, log>>
             ELSE IF outcome = EOFError
             THEN /\ pc' = "crashed"
                  /\ UNCHANGED <<user_input, log, console>>
             ELSE LET text == strip(outcome.text) IN
                  /\ user_input' = text
                  /\ IF is_blank(text)
                     THEN /\ pc' = "input"
                          /\ UNCHANGED <<log, console>>
                     ELSE IF is_exit(text)
                     THEN /\ console' = Append(console, Farewell)
                          /\ log' = log_entry("system", ExitNotice, None)
                          /\ pc' = "done"
                     ELSE /\ Turns < MaxTurns
                          /\ log' = log_entry("user", text, None)
                          /\ pc' = "dispatch"
                          /\ UNCHANGED console
    /\ UNCHANGED <<env, files, faq_data, orders_data, memory, bot_reply, usage_data>>

\* Lines 160-185: choose the branch; the local branches compute the reply, the
\* fallback builds input_for_llm and enters conversation.predict.
Dispatch ==
    /\ pc = "dispatch"
    /\ usage_data' = ZeroUsage
    /\ IF is_order(user_input)
       THEN /\ bot_reply' = order_reply(user_input)
            /\ invoked' = order_calls(user_input)
            /\ pc' = "emit"
       ELSE LET faq_answer == find_in_faq(user_input) IN
            IF faq_truthy(faq_answer)
            THEN /\ bot_reply' = faq_answer.val
                 /\ invoked' = {"find_in_faq"}
                 /\ pc' = "emit"
            ELSE /\ bot_reply' = <<>>
                 /\ invoked' = {"find_in_faq", "predict"}
                 /\ pc' = "remote"
    /\ UNCHANGED <<env, files, faq_data, orders_data, memory, log, console,
                   line, user_input, call>>

\* Variant of RemoteOk with a window memory: only the system message and the
\* latest exchange are kept.
RemoteOk_window ==
    /\ pc = "remote"
    /\ \E reply \in Replies, usage \in Usages :
          /\ memory' = <<memory[1]>> \o
                << [role |-> "user", content |-> input_for_llm],
                   [role |-> "assistant", content |-> reply] >>
          /\ bot_reply' = reply
          /\ usage_data' = usage
    /\ call' = [state |-> "ok"]
    /\ pc' = "emit"
    /\ UNCHANGED <<env, files, faq_data, orders_data, log, console, line,
                   user_input, invoked>>

\* Lines 188-194: predict returns; the chain saves the exchange to its memory
\* and the callback reports the token counts.
RemoteOk ==
    /\ pc = "remote"
    /\ \E reply \in Replies, usage \in Usages :
          /\ memory' = memory \o
                << [role |-> "user", content |-> input_for_llm],
                   [role |-> "assistant", content |-> reply] >>
          /\ bot_reply' = reply
          /\ usage_data' = usage
    /\ call' = [state |-> "ok"]
    /\ pc' = "emit"
    /\ UNCHANGED <<env, files, faq_data, orders_data, log, console, line,
                   user_input, invoked>>

\* Variant of RemoteFail in which the exchange is saved although the call
\* raised.
RemoteFail_saves_exchange ==
    /\ pc = "remote"
    /\ \E e \in Errors :
          /\ bot_reply' = error_reply(e)
          /\ call' = [state |-> "raised", error |-> e]
          /\ memory' = memory \o
                << [role |-> "user", content |-> input_for_llm],
                   [role |-> "assistant", content |-> error_reply(e)] >>
    /\ pc' = "emit"
    /\ UNCHANGED <<env, files, faq_data, orders_data, log, console,
                   line, user_input, usage_data, invoked>>

\* Variant of RemoteFail in which the exception is not caught in the turn.
RemoteFail_propagates ==
    /\ pc = "remote"
    /\ \E e \in Errors : call' = [state |-> "raised", error |-> e]
    /\ pc' = "crashed"
    /\ UNCHANGED <<env, files, faq_data, orders_data, memory, log, console,
                   line, user_input, bot_reply, usage_data, invoked>>

\* Lines 196-197: predict raises an Exception; nothing was saved to the memory.
RemoteFail ==
    /\ pc = "remote"
    /\ \E e \in Errors :
          /\ bot_reply' = error_reply(e)
          /\ call' = [state |-> "raised", error |-> e]
    /\ pc' = "emit"
    /\ UNCHANGED <<env, files, faq_data, orders_data, memory, log, console,
                   line, user_input, usage_data, invoked>>

\* Lines 200-202: strip, print and log the reply, then loop.
Emit ==
    /\ pc = "emit"
    /\ bot_reply' = strip(bot_reply)
    /\ console' = Append(console, <<"Bot:", " ">> \o bot_reply')
    /\ log' = log_entry("assistant", bot_reply', Some(usage_data))
    /\ pc' = "input"
    /\ UNCHANGED <<env, files, faq_data, orders_data, memory, line,
                   user_input, usage_data, invoked, call>>

\* A KeyboardInterrupt delivered outside input(): no handler encloses lines
\* 158-202 for it ("except Exception" does not catch it), so main is left by
\* the exception and the interpreter exits.
InterruptTurn ==
    /\ pc \in {"dispatch", "remote", "emit"}
    /\ pc' = "crashed"
    /\ UNCHANGED <<env, files, faq_data, orders_data, memory, log, console,
                   line, user_input, bot_reply, usage_data, invoked, call>>

Next ==
    \/ Boot
    \/ MainInit
    \/ Read
    \/ Dispatch
    \/ RemoteOk
    \/ RemoteFail
    \/ Emit
    \/ InterruptTurn

Spec == Init /\ [][Next]_vars

(***************************************************************************)
(* get_order_status on its own: every store over two ids, every query.     *)
(***************************************************************************)
StoreIds == {IdA1, IdX}
QueryIds == {IdA1, IdX, IdZ9}

\* Every store that holds a record of OrderRecords under some of StoreIds.
Stores ==
    UNION { [present -> OrderRecords] : present \in SUBSET StoreIds }

InitOrders ==
    /\ env = TRUE
    /\ files = (FaqPath :> [state |-> "ok", data |-> <<>>])
                 @@ (OrdersPath :> [state |-> "ok", data |-> <<>>])
    /\ pc = "lookup"
    /\ faq_data = <<>>
    /\ orders_data \in Stores
    /\ memory = <<>>
    /\ log = <<>>
    /\ console = <<>>
    /\ line = NoLine
    /\ user_input \in QueryIds
    /\ bot_reply = <<>>
    /\ usage_data = ZeroUsage
    /\ invoked = {}
    /\ call = NoCall

\* One call get_order_status(user_input), its result left in bot_reply.
OrderLookup ==
    /\ pc = "lookup"
    /\ bot_reply' = get_order_status(user_input)
    /\ invoked' = {"get_order_status"}
    /\ pc' = "looked"
    /\ UNCHANGED <<env, files, faq_data, orders_data, memory, log, console,
                   line, user_input, usage_data, call>>

SpecOrders == InitOrders /\ [][OrderLookup]_vars

(***************************************************************************)
(* find_in_faq on its own: every FAQ list of up to MaxFaqLen entries,      *)
(* every question.                                                         *)
(***************************************************************************)
FaqQuestions ==
    { <<"q", "1">>, <<" ", "Q", "1", "\t">>, <<"q", "1", "x">>, <<"q">> }
FaqEntries ==
    { [q |-> q, a |-> a] : q \in FaqQuestions, a \in { <<"a", "1">>, <<"a", "2">> } }

FaqLists ==
    UNION { [1..n -> FaqEntries] : n \in 0..MaxFaqLen }

FaqQueries ==
    { <<"q", "1">>, <<"Q", "1", " ">>, <<"q">>, <<"1">>, <<"q", " ", "1">> }

InitFaq ==
    /\ env = TRUE
    /\ files = (FaqPath :> [state |-> "ok", data |-> <<>>])
                 @@ (OrdersPath :> [state |-> "ok", data |-> <<>>])
    /\ pc = "match"
    /\ faq_data \in FaqLists
    /\ orders_data = <<>>
    /\ memory = <<>>
    /\ log = <<>>
    /\ console = <<>>
    /\ line = NoLine
    /\ user_input \in FaqQueries
    /\ bot_reply = None
    /\ usage_data = ZeroUsage
    /\ invoked = {}
    /\ call = NoCall

\* One call find_in_faq(user_input); its result (faq_answer of line 171) is
\* left in bot_reply.
FaqLookup ==
    /\ pc = "match"
    /\ bot_reply' = find_in_faq(user_input)
    /\ invoked' = {"find_in_faq"}
    /\ pc' = "matched"
    /\ UNCHANGED <<env, files, faq_data, orders_data, memory, log, console,
                   line, user_input, usage_data, call>>

SpecFaq == InitFaq /\ [][FaqLookup]_vars

(***************************************************************************)
(* Vocabulary of the properties, stated on the observable state alone.     *)
(***************************************************************************)
Last(seq) == seq[Len(seq)]

\* The step is an input() call that returned a line.
ReadsLine == pc = "input" /\ "text" \in DOMAIN line'
Trimmed == strip(line'.text)

ExitText(text)  == lower(text) \in ExitKeywords
OrderText(text) == startswith(lower(text), OrderCmd)

\* The answers of the FAQ entries whose normalized question equals the
\* normalized text.
FaqAnswers(text) ==
    { faq_data[i].a : i \in { j \in DOMAIN faq_data :
                               strip(lower(faq_data[j].q)) = strip(lower(text)) } }
FaqHit(text) == FaqAnswers(text) # {}

Dialogue(lg) == SelectSeq(lg, LAMBDA r : r.role \in {"user", "assistant"})

\* e occurs in s as a contiguous run.
Embeds(s, e) ==
    \E i \in 0..(Len(s) - Len(e)) : SubSeq(s, i + 1, i + Len(e)) = e

\* A pass of the loop has completed a turn and the loop is at input() again.
TurnDone == pc = "input" /\ Len(log) > 1 /\ Last(log).role = "assistant"

(***************************************************************************)
(* C1                                                                      *)
(***************************************************************************)
\* C1 (as claimed): every input that is non-empty after trimming makes the
\* pass append one user record, and the reply step appends one assistant
\* record right after it; only the empty input appends nothing.
C1_EveryNonEmptyInputLogsUser ==
    [][ /\ (ReadsLine /\ Trimmed # <<>>) =>
              log' = Append(log, [role |-> "user", content |-> Trimmed])
        /\ (pc = "emit" /\ pc' = "input") =>
              /\ Last(log).role = "user"
              /\ Len(log') = Len(log) + 1
              /\ Last(log').role = "assistant" ]_vars

\* C1 (amended): every input that is non-empty after trimming and is not an
\* exit keyword makes the pass append exactly one user record, before any
\* handler is called; no record is appended while the handlers run; the reply
\* step appends exactly one assistant record, with the trimmed reply, directly
\* after that user record.  A keyboard interrupt that arrives during the turn
\* ends the process with the log as it is, the user record unanswered.  The
\* empty input and the exit keywords append no user and no assistant record.
C1_TurnLogsUserThenAssistant ==
    [][ /\ (ReadsLine /\ Trimmed # <<>> /\ ~ExitText(Trimmed)) =>
              /\ log' = Append(log, [role |-> "user", content |-> Trimmed])
              /\ invoked' = {}
              /\ pc' = "dispatch"
        /\ (ReadsLine /\ (Trimmed = <<>> \/ ExitText(Trimmed))) =>
              Dialogue(log') = Dialogue(log)
        /\ (pc \in {"dispatch", "remote"} \/ pc' = "crashed") => log' = log
        /\ (pc = "emit" /\ pc' = "input") =>
              /\ Last(log).role = "user"
              /\ Len(log') = Len(log) + 1
              /\ SubSeq(log', 1, Len(log)) = log
              /\ Last(log').role = "assistant"
              /\ Last(log').content = strip(bot_reply) ]_vars

\* A turn with an empty model reply has been logged as a user/assistant pair.
C1_Witness ==
    /\ TurnDone
    /\ Len(log) = 3
    /\ log[2].role = "user"
    /\ log[3].content = <<>>
    /\ call.state = "ok"

(***************************************************************************)
(* C2                                                                      *)
(***************************************************************************)
\* C2 (as claimed): between turns the memory holds the system message plus two
\* messages for every turn so far that was neither an /order command nor an
\* FAQ hit, whatever the remote call did.
C2_TwoPerFallbackTurn ==
    (pc = "input" /\ Len(log) > 0 /\ Last(log).role # "user") =>
        Len(memory) = 1 + 2 * Cardinality(
            { i \in DOMAIN log :
                 /\ log[i].role = "user"
                 /\ ~OrderText(log[i].content)
                 /\ ~FaqHit(log[i].content) })

\* C2 (amended): the memory starts as the one system message; a remote call
\* that returns extends it by exactly two messages, the user message and then
\* the assistant message; every other step, a remote call that raises
\* included, leaves it unchanged.  So its length is 1 plus 2 for every turn
\* whose remote call succeeded: /order turns (valid or malformed) and turns
\* answered from the FAQ change it by 0.
C2_TwoPerSuccessfulCall ==
    [][ IF pc = "main"
        THEN Len(memory') = 1 /\ memory'[1].role = "system"
        ELSE IF pc = "remote" /\ call'.state = "ok"
        THEN /\ Len(memory') = Len(memory) + 2
             /\ SubSeq(memory', 1, Len(memory)) = memory
             /\ memory'[Len(memory) + 1].role = "user"
             /\ memory'[Len(memory) + 2].role = "assistant"
        ELSE memory' = memory ]_vars

\* One remote call returned, a later one raised, and the turn of the failed
\* call is complete: the memory still holds three messages.
C2_Witness ==
    /\ TurnDone
    /\ Len(log) = 5
    /\ call.state = "raised"
    /\ Len(memory) = 3

(***************************************************************************)
(* C3                                                                      *)
(***************************************************************************)
\* C3: when conversation.predict raises, the process stays in the turn: the
\* reply embeds the error text and the usage stays all-zero; the reply step
\* of that turn appends exactly one assistant record, carrying that reply and
\* the all-zero usage, and the loop is at input() again.  (The only other step
\* such a turn can take is a keyboard interrupt, which is no failure of the
\* call.)
C3_RemoteFailureIsLocal ==
    [][ /\ (pc = "remote" /\ call'.state = "raised") =>
              /\ pc' = "emit"
              /\ Embeds(bot_reply', call'.error)
              /\ bot_reply' # call'.error
              /\ usage_data' = ZeroUsage
              /\ log' = log
        /\ (pc = "emit" /\ call.state = "raised" /\ pc' # "crashed") =>
              /\ pc' = "input"
              /\ Len(log') = Len(log) + 1
              /\ SubSeq(log', 1, Len(log)) = log
              /\ Last(log').role = "assistant"
              /\ Embeds(Last(log').content, call.error)
              /\ Last(log').usage = ZeroUsage ]_vars

\* A turn whose remote call timed out is complete and logged.
C3_Witness ==
    /\ TurnDone
    /\ call = [state |-> "raised", error |-> <<"Request timed out.">>]
    /\ Embeds(Last(log).content, <<"Request timed out.">>)

(***************************************************************************)
(* C4                                                                      *)
(***************************************************************************)
\* C4: once the loop has started the process ends only by an exit keyword or
\* a keyboard interrupt (never by the end of input), and when it has ended
\* the last record of the log is a system record.
C4_EndsOnlyByExitOrInterruptWithSystemRecord ==
    (pc \in {"done", "crashed"}) =>
        /\ line # EOFError
        /\ Last(log).role = "system"

(***************************************************************************)
(* C5                                                                      *)
(***************************************************************************)
\* C5: once a pass has chosen its branch, the handlers it has called are those
\* of the first test, in the order exit keyword, /order, FAQ hit, fallback,
\* that the input passes: no handler but Order Lookup for an /order input, the
\* FAQ matcher alone for an FAQ hit, the FAQ matcher and the remote model
\* otherwise, and none of this for an exit keyword.
C5_FirstMatchingBranchOnly ==
    (pc \in {"remote", "emit"} \/ (TurnDone /\ user_input # <<>>)) =>
        /\ ~ExitText(user_input)
        /\ OrderText(user_input) => invoked \subseteq {"get_order_status"}
        /\ (~OrderText(user_input) /\ FaqHit(user_input)) =>
              invoked = {"find_in_faq"}
        /\ (~OrderText(user_input) /\ ~FaqHit(user_input)) =>
              invoked = {"find_in_faq", "predict"}

(***************************************************************************)
(* C6                                                                      *)
(***************************************************************************)
\* C6: in a turn taken by the /order branch, Order Lookup is called exactly
\* when the input splits into two whitespace-separated tokens; with any other
\* number of tokens the reply is the fixed format-error message; no other
\* handler is called and the usage, as computed and as logged, is all-zero.
C6_LookupIffTwoTokens ==
    /\ (pc = "emit" /\ OrderText(user_input)) =>
          /\ ("get_order_status" \in invoked) <=> (Len(split(user_input)) = 2)
          /\ invoked \subseteq {"get_order_status"}
          /\ (Len(split(user_input)) # 2) => bot_reply = FormatError
          /\ usage_data = ZeroUsage
          /\ call = NoCall
    /\ (TurnDone /\ OrderText(user_input)) =>
          /\ ("get_order_status" \in invoked) <=> (Len(split(user_input)) = 2)
          /\ (Len(split(user_input)) # 2) => Last(log).content = FormatError
          /\ Last(log).usage = ZeroUsage

\* Two /order turns are complete: one with one argument, answered by Order
\* Lookup, then one with two arguments, answered by the format error.
C6_Witness ==
    /\ TurnDone
    /\ Len(log) = 5
    /\ log[2].content = OrderCmd \o <<" ">> \o IdA1
    /\ log[3].content # FormatError
    /\ log[4].content = OrderCmd \o <<" ">> \o IdA1 \o <<" ">> \o IdX
    /\ log[5].content = FormatError
    /\ invoked = {}

(***************************************************************************)
(* C7                                                                      *)
(***************************************************************************)
\* C7: in a turn whose input is no exit keyword and no /order command and
\* whose normalized text equals the normalized question of an FAQ entry, the
\* remote model is not called, the usage is all-zero and the logged reply is
\* the stored answer of such an entry, unchanged.
C7_FaqHitAnsweredVerbatim ==
    LET hit == /\ user_input # <<>>
               /\ ~ExitText(user_input)
               /\ ~OrderText(user_input)
               /\ FaqHit(user_input)
    IN
    /\ (pc \in {"remote", "emit"} /\ hit) =>
          /\ "predict" \notin invoked
          /\ call = NoCall
          /\ usage_data = ZeroUsage
    /\ (TurnDone /\ hit) =>
          /\ "predict" \notin invoked
          /\ Last(log).content \in FaqAnswers(user_input)
          /\ Last(log).usage = ZeroUsage

(***************************************************************************)
(* C8                                                                      *)
(***************************************************************************)
\* C8: a line that is empty after trimming changes nothing: no reply is
\* printed, no record is logged, the memory and the turn's locals are as
\* before, no handler and no remote call is made, and the loop is at input()
\* again.
C8_EmptyInputIsNoOp ==
    [][ (ReadsLine /\ Trimmed = <<>>) =>
            /\ pc' = "input"
            /\ UNCHANGED <<log, console, memory, bot_reply, usage_data>>
            /\ invoked' = {}
            /\ call' = NoCall ]_vars

\* A whitespace-only line has been read after a complete turn.
C8_Witness ==
    /\ pc = "input"
    /\ line = Line(<<" ", "\t">>)
    /\ Len(log) = 3
    /\ Len(console) = 4

(***************************************************************************)
(* C9                                                                      *)
(***************************************************************************)
\* C9: a line whose trimmed, lower-cased text is an exit keyword prints the
\* farewell, appends exactly one system "session ended" record, calls no
\* handler, leaves the memory unchanged and ends the loop; once the loop has
\* ended nothing changes any more (no input is read, no record is logged).
C9_ExitIsTerminal ==
    [][ /\ (ReadsLine /\ ExitText(Trimmed)) =>
              /\ console' = Append(console, Farewell)
              /\ log' = Append(log, [role |-> "system", content |-> ExitNotice])
              /\ invoked' = {}
              /\ call' = NoCall
              /\ memory' = memory
              /\ pc' = "done"
        /\ (pc = "done") => FALSE ]_vars

\* The session was ended by " Quit " after one complete turn.
C9_Witness ==
    /\ pc = "done"
    /\ line = Line(<<" ", "Q", "u", "i", "t", " ">>)
    /\ Len(log) = 4
    /\ Last(log) = [role |-> "system", content |-> ExitNotice]
    /\ Last(console) = Farewell

(***************************************************************************)
(* C10                                                                     *)
(***************************************************************************)
NotFoundSentence(id) ==
    <<"Zakaz s nomerom", " ">> \o id
       \o <<" ", "ne nayden. Pozhaluysta, proverte nomer.">>
UnknownStatusSentence(id) ==
    <<"Neizvestnyy status dlya zakaza #">> \o id \o <<".">>
InTransitSentence(r, id) ==
    startswith(r, <<"Zakaz #">> \o id \o <<" ", "v puti. Primernyy srok dostavki:">>)
DeliveredSentence(r, id) ==
    startswith(r, <<"Zakaz #">> \o id \o <<" ", "dostavlen">>)
ProcessingSentence(r, id) ==
    startswith(r, <<"Zakaz #">> \o id \o <<" ", "v obrabotke.">>)

\* C10: get_order_status answers every id over every store: the not-found
\* sentence with the id when the id is absent; for a present id the sentence
\* of its status (in_transit, delivered, processing) and the unknown-status
\* sentence for any other or missing status.
C10_LookupSentenceByStatus ==
    (pc = "looked") =>
        LET id == user_input IN
        IF id \notin DOMAIN orders_data
        THEN bot_reply = NotFoundSentence(id)
        ELSE LET order == orders_data[id]
                 status == IF "status" \in DOMAIN order
                           THEN order["status"] ELSE "(missing)"
             IN
             CASE status = "in_transit" -> InTransitSentence(bot_reply, id)
               [] status = "delivered"  -> DeliveredSentence(bot_reply, id)
               [] status = "processing" -> ProcessingSentence(bot_reply, id)
               [] OTHER -> bot_reply = UnknownStatusSentence(id)

(***************************************************************************)
(* C11                                                                     *)
(***************************************************************************)
Normal(text) == strip(lower(text))

\* The positions of the entries whose normalized question is the normalized
\* text.
FaqMatches(text) ==
    { i \in DOMAIN faq_data : Normal(faq_data[i].q) = Normal(text) }

\* C11: find_in_faq returns the answer of the first entry, in stored order,
\* whose lower-cased and trimmed question equals the lower-cased and trimmed
\* input, and None when no entry's normalized question equals the normalized
\* input (an entry whose question only contains, or is contained in, the
\* input does not match).
C11_FirstExactMatch ==
    (pc = "matched") =>
        IF FaqMatches(user_input) = {}
        THEN bot_reply = None
        ELSE LET first == CHOOSE i \in FaqMatches(user_input) :
                              \A j \in FaqMatches(user_input) : i <= j
             IN bot_reply = Some(faq_data[first].a)

\* The list holds a question that contains the query, then two entries that
\* match it after normalization, with different answers: the answer of the
\* first of the two is returned.
C11_Witness ==
    /\ pc = "matched"
    /\ Len(faq_data) = 3
    /\ user_input = <<"Q", "1", " ">>
    /\ faq_data[1].q = <<"q", "1", "x">>
    /\ faq_data[2] = [q |-> <<" ", "Q", "1", "\t">>, a |-> <<"a", "2">>]
    /\ faq_data[3] = [q |-> <<"q", "1">>, a |-> <<"a", "1">>]
    /\ bot_reply = Some(<<"a", "2">>)

(***************************************************************************)
(* C12                                                                     *)
(***************************************************************************)
\* C12: when the configuration is incomplete or one of the two data files is
\* missing or unparseable, the process never gets past startup: it is before
\* or at its abort, the memory was never initialized, no input() call was
\* made and the log holds no record.
C12_StartupFatal ==
    (~env \/ files[FaqPath].state # "ok" \/ files[OrdersPath].state # "ok") =>
        /\ pc \in {"boot", "aborted"}
        /\ memory = <<>>
        /\ log = <<>>
        /\ line = NoLine

\* The configuration and the FAQ file are fine, the orders file does not
\* parse, and the process has aborted after reporting it.
C12_Witness ==
    /\ pc = "aborted"
    /\ env
    /\ files[FaqPath].state = "ok"
    /\ files[OrdersPath].state = "malformed"
    /\ Len(console) = 1
    /\ log = <<>>

(***************************************************************************)
(* C13                                                                     *)
(***************************************************************************)
\* C13: every step leaves the memory unchanged or extends it at its end, so
\* each earlier memory is a prefix of each later one; and in every state
\* after main has initialized it, its first message is the system prompt and
\* it holds exactly one system message.
C13_MemoryAppendOnly ==
    [][ /\ Len(memory') >= Len(memory)
        /\ SubSeq(memory', 1, Len(memory)) = memory
        /\ (pc' \notin {"boot", "main", "aborted"}) =>
              /\ memory'[1] = [role |-> "system", content |-> system_prompt]
              /\ Cardinality({i \in DOMAIN memory' : memory'[i].role = "system"}) = 1
      ]_vars

\* Two remote calls have returned: the memory holds the system prompt and
\* both exchanges, in order.
C13_Witness ==
    /\ TurnDone
    /\ Len(memory) = 5
    /\ memory[1].role = "system"
    /\ memory[2].role = "user"
    /\ memory[4].role = "user"
    /\ memory[5].role = "assistant"

(***************************************************************************)
(* C14                                                                     *)
(***************************************************************************)
\* The log ends with a user record that no assistant record answers.
Unanswered == log # <<>> /\ Last(log).role = "user"

\* C14: turns do not overlap and every started turn completes: whenever the
\* loop is at input() the last user record has its assistant record, and the
\* process never ends, whatever happened during the turn (an interrupt during
\* the remote call included), with a user record left unanswered.
C14_TurnsCompleteInOrder ==
    /\ (pc = "input") => ~Unanswered
    /\ (pc \in {"done", "crashed"}) => ~Unanswered

\* The part of C14 that the loop keeps: input() is only called with every
\* user record answered.
C14_NoOverlap == (pc = "input") => ~Unanswered

(***************************************************************************)
(* C15                                                                     *)
(***************************************************************************)
\* The first whitespace-separated token of the text is /order, in any case.
OrderToken(text) ==
    split(text) # <<>> /\ lower(split(text)[1]) = OrderCmd

\* C15: a turn whose input does not have /order as its first token (an input
\* whose first token only begins with "/order" included) is handled as an FAQ
\* query or free-form question: the FAQ matcher is consulted, Order Lookup is
\* not called and the reply is not the format-error message.
C15_OrderBranchOnlyForOrderToken ==
    ((pc \in {"remote", "emit"} \/ (TurnDone /\ user_input # <<>>))
        /\ ~OrderToken(user_input)) =>
            /\ "get_order_status" \notin invoked
            /\ "find_in_faq" \in invoked
            /\ (pc # "remote") => bot_reply # FormatError

\* The part of C15 that the loop keeps: an input whose first token is /order
\* is never passed to the FAQ matcher or the remote model.
C15_OrderTokenTakesOrderBranch ==
    ((pc \in {"remote", "emit"} \/ (TurnDone /\ user_input # <<>>))
        /\ OrderToken(user_input)) =>
            invoked \subseteq {"get_order_status"}

(***************************************************************************)
(* C16                                                                     *)
(***************************************************************************)
\* The question/answer blocks of the entries, one per entry, in stored
\* order, separated by newlines.
RECURSIVE QABlocks(_)
QABlocks(items) ==
    IF items = <<>> THEN <<>>
    ELSE <<"Vopros:", " ">> \o Head(items).q
            \o <<"\n", "Otvet:", " ">> \o Head(items).a
            \o (IF Tail(items) = <<>> THEN <<>>
                ELSE <<"\n">> \o QABlocks(Tail(items)))

Augmented(items, question) ==
    <<"Ispolzuya sleduyushchiy kontekst iz FAQ, otvet na vopros polzovatelya.",
      "\n", "--- Kontekst FAQ ---", "\n">>
       \o QABlocks(items)
       \o <<"\n", "--- Konets konteksta ---", "\n", "\n",
            "Vopros polzovatelya:", " ">>
       \o question

\* C16: whenever a pass enters the remote call, the input it sends is the
\* opening banner, one question/answer block per FAQ entry in stored order,
\* the closing banner and then the trimmed line just read; when the call
\* returns, the two messages added to the memory are that augmented input as
\* the user message and the model's reply, as returned, as the assistant
\* message.
C16_AugmentedInput ==
    [][ /\ (pc' = "remote") =>
              /\ user_input' = strip(line'.text)
              /\ input_for_llm' = Augmented(faq_data', user_input')
        /\ (pc = "remote" /\ call'.state = "ok") =>
              /\ memory'[Len(memory) + 1] =
                    [role |-> "user", content |-> Augmented(faq_data, user_input)]
              /\ memory'[Len(memory) + 2] =
                    [role |-> "assistant", content |-> bot_reply']
              /\ bot_reply' \in Replies ]_vars

\* With the four-entry FAQ loaded, the question "hi" went to the model and
\* the reply " ok\n" came back: both are in the memory.
C16_Witness ==
    /\ pc = "emit"
    /\ call.state = "ok"
    /\ faq_data = FaqFull
    /\ user_input = <<"h", "i">>
    /\ Len(memory) = 3
    /\ memory[2].content = Augmented(FaqFull, <<"h", "i">>)
    /\ memory[3].content = <<" ", "o", "k", "\n">>

(***************************************************************************)
(* C17                                                                     *)
(***************************************************************************)
\* The shape of a log: the system-prompt record, then records that alternate
\* user, assistant from position 2 on, then possibly the one "session ended"
\* system record; a last user record without its assistant record is there
\* only when unpaired_ok and is not followed by the system record.
LogShape(lg, unpaired_ok) ==
    /\ lg # <<>>
    /\ lg[1] = [role |-> "system", content |-> system_prompt]
    /\ LET n == Len(lg)
           ended == n > 1 /\ lg[n].role = "system"
           m == IF ended THEN n - 1 ELSE n
       IN
       /\ ended => lg[n] = [role |-> "system", content |-> ExitNotice]
       /\ \A i \in 2..m :
             lg[i].role = (IF i % 2 = 0 THEN "user" ELSE "assistant")
       /\ (m >= 2 /\ m % 2 = 0) => (unpaired_ok /\ ~ended)

Started == pc \notin {"boot", "main", "aborted"}

\* C17: every step only appends to the log, and in every state from the
\* first input() call on the log has the shape above, with an unpaired last
\* user record only while a turn is in progress.
C17_LogShapeWhileInTurn ==
    [][ /\ Len(log') >= Len(log)
        /\ SubSeq(log', 1, Len(log)) = log
        /\ Started' => LogShape(log', pc' \in {"dispatch", "remote", "emit"})
      ]_vars

\* The part of C17 that the program keeps: the same, with the unpaired last
\* user record also there after the process was ended in the middle of a
\* turn.
C17_LogShapeKept ==
    [][ /\ Len(log') >= Len(log)
        /\ SubSeq(log', 1, Len(log)) = log
        /\ Started' =>
              LogShape(log', pc' \in {"dispatch", "remote", "emit", "crashed"})
      ]_vars

(***************************************************************************)
(* C18                                                                     *)
(***************************************************************************)
\* C18: the records of the log that carry a usage field are exactly the
\* assistant records; the usage logged for a turn is all-zero when the turn
\* was an /order turn, an FAQ-hit turn or a fallback turn whose remote call
\* raised, and is what the remote call reported when it returned.
C18_UsagePerTurnKind ==
    /\ \A i \in DOMAIN log :
          ("usage" \in DOMAIN log[i]) <=> (log[i].role = "assistant")
    /\ (TurnDone /\ user_input # <<>>) =>
          /\ OrderText(user_input) => Last(log).usage = ZeroUsage
          /\ (~OrderText(user_input) /\ FaqHit(user_input)) =>
                Last(log).usage = ZeroUsage
          /\ (call.state = "raised") => Last(log).usage = ZeroUsage
          /\ (call.state = "ok") => Last(log).usage = usage_data

\* The part of C18 that the program keeps: the same, with "a turn that made
\* no remote call" for "an /order turn or an FAQ-hit turn".
C18_UsageKept ==
    /\ \A i \in DOMAIN log :
          ("usage" \in DOMAIN log[i]) <=> (log[i].role = "assistant")
    /\ (TurnDone /\ user_input # <<>>) =>
          /\ ("predict" \notin invoked) => Last(log).usage = ZeroUsage
          /\ (call.state = "raised") => Last(log).usage = ZeroUsage
          /\ (call.state = "ok") => Last(log).usage = usage_data

====
